---- MODULE Spec2Model ----
(***************************************************************************)
(* Model of the MicroPython DS3231 real-time-clock driver (ds3231.py).     *)
(*                                                                         *)
(* The device is a flat array of byte registers reached through the I2C   *)
(* bus; the driver is the class DS3231 with its reusable buffers.  Every   *)
(* public method is one action that performs all of its bus transactions.  *)
(* The scratch buffers _timebuf, _buf, _al1_buf and _al2buf are written    *)
(* in full before they are read in every method, so nothing is carried in  *)
(* them from one call to the next: they are locals of the actions.         *)
(* Tuples are 1-indexed here: Python's datetime[k] is datetime[k + 1].     *)
(***************************************************************************)
EXTENDS Integers, Sequences, FiniteSets, TLC

(* ------------------------------------------------------------------ *)
(* Register addresses and class constants                              *)
(* ------------------------------------------------------------------ *)
DATETIME_REG == 0
ALARM1_REG == 7
ALARM2_REG == 11
CONTROL_REG == 14
STATUS_REG == 15
AGING_REG == 16
TEMPERATURE_REG == 17

FREQ_1 == 1
FREQ_1024 == 2
FREQ_4096 == 3
FREQ_8192 == 4

AL1_EVERY_S == 15
AL1_MATCH_S == 14
AL1_MATCH_MS == 12
AL1_MATCH_HMS == 8
AL1_MATCH_DHMS == 0

AL2_EVERY_M == 7
AL2_MATCH_M == 6
AL2_MATCH_HM == 4
AL2_MATCH_DHM == 0

(* ------------------------------------------------------------------ *)
(* Bounds of the model                                                 *)
(* ------------------------------------------------------------------ *)
\* number of swept date/time tuples; 100 of them visit every year 2000..2099
NumDt == 100
\* number of swept alarm time tuples (5 visit every length, with and without weekday)
NumAlarmTimes == 5
\* how many times the hardware may raise an alarm flag on its own in one run
MaxHwEvents == 2

(* ------------------------------------------------------------------ *)
(* Python integer operators on non-negative integers                   *)
(* ------------------------------------------------------------------ *)
RECURSIVE BitAnd(_, _)
BitAnd(a, b) ==
  IF a = 0 \/ b = 0 THEN 0
  ELSE (a % 2) * (b % 2) + 2 * BitAnd(a \div 2, b \div 2)

RECURSIVE BitOr(_, _)
BitOr(a, b) ==
  IF a = 0 THEN b
  ELSE IF b = 0 THEN a
  ELSE (IF a % 2 = 1 \/ b % 2 = 1 THEN 1 ELSE 0) + 2 * BitOr(a \div 2, b \div 2)

\* a << n
Shl(a, n) == a * (2 ^ n)

\* a >> n
Shr(a, n) == a \div (2 ^ n)

\* a & ~b for a >= 0: ~b is the infinite two's complement of b, so the result
\* is a with the bits of b cleared
BitAndNot(a, b) == a - BitAnd(a, b)

\* str(n) for n >= 0, as the sequence of its decimal digits
RECURSIVE str(_)
str(n) == IF n < 10 THEN <<n>> ELSE Append(str(n \div 10), n % 10)

\* s[-2:]
LastTwo(s) == IF Len(s) <= 2 THEN s ELSE SubSeq(s, Len(s) - 1, Len(s))

\* int(s) for a sequence of decimal digits
RECURSIVE int(_)
int(s) == IF Len(s) = 0 THEN 0 ELSE 10 * int(SubSeq(s, 1, Len(s) - 1)) + s[Len(s)]

Byte == 0..255

(* ------------------------------------------------------------------ *)
(* BCD codec                                                           *)
(* ------------------------------------------------------------------ *)
\* a plausible slip: the value is stored in binary instead of BCD
dectobcd_binary(decimal) == decimal

dectobcd(decimal) ==
  LET tens == decimal \div 10
      ones == decimal % 10
  IN BitOr(Shl(tens, 4), ones)

bcdtodec(bcd) ==
  LET tens == BitAnd(Shr(bcd, 4), 15)
      ones == BitAnd(bcd, 15)
  IN tens * 10 + ones

(* ------------------------------------------------------------------ *)
(* State                                                               *)
(* ------------------------------------------------------------------ *)
VARIABLES
  mem,      \* the device registers, address -> byte
  op,       \* the method of the last call ("" before the first call)
  arg,      \* the arguments of the last call
  ret,      \* what the last call returned
  writes,   \* the bus writes the last call issued, in order
  printed,  \* whether the last call printed the oscillator-stop warning
  pc,       \* "idle", or the line at which a call in progress stands
  status,   \* check_alarm's local status while that call is in progress
  hw        \* how many flags the hardware has raised on its own

vars == <<mem, op, arg, ret, writes, printed, pc, status, hw>>

Regs == 0..18

(* ------------------------------------------------------------------ *)
(* The bus: i2c.readfrom_mem / readfrom_mem_into / writeto_mem         *)
(* A device record d = [mem, writes] is threaded through the helper     *)
(* methods that other methods call.                                    *)
(* ------------------------------------------------------------------ *)
readfrom_mem(m, memaddr, nbytes) == [i \in 1..nbytes |-> m[memaddr + i - 1]]

writeto_mem(d, memaddr, data) ==
  [d EXCEPT
     !.mem = [r \in Regs |->
                IF r >= memaddr /\ r < memaddr + Len(data)
                THEN data[r - memaddr + 1] ELSE d.mem[r]],
     !.writes = Append(d.writes, [reg |-> memaddr, data |-> data])]

Dev == [mem |-> mem, writes |-> <<>>]

(* ------------------------------------------------------------------ *)
(* Status helpers                                                      *)
(* ------------------------------------------------------------------ *)
OSF(m) == BitAnd(readfrom_mem(m, STATUS_REG, 1)[1], 128) # 0

is_busy(m) == BitAnd(readfrom_mem(m, STATUS_REG, 1)[1], Shl(1, 2)) # 0

\* a plausible slip: the status byte is written back unchanged
OSF_cleared_none(st) == st

\* the byte _OSF_reset writes back
OSF_cleared(st) == BitAnd(st, 127)

OSF_reset(d) ==
  LET st == readfrom_mem(d.mem, STATUS_REG, 1)[1]
  IN writeto_mem(d, STATUS_REG, <<OSF_cleared(st)>>)

(* ------------------------------------------------------------------ *)
(* datetime()                                                          *)
(* ------------------------------------------------------------------ *)
\* the hour decoded from the hour register
DecodeHour(hr_reg) ==
  IF BitAnd(hr_reg, 64) # 0
  THEN bcdtodec(BitAnd(hr_reg, 31)) + (IF BitAnd(hr_reg, 32) # 0 THEN 12 ELSE 0)
  ELSE bcdtodec(BitAnd(hr_reg, 63))

\* the tuple datetime() returns for the 7 bytes read
DecodeDatetime(tb) ==
  LET seconds == bcdtodec(tb[1])
      minutes == bcdtodec(tb[2])
      hour == DecodeHour(tb[3])
      weekday == bcdtodec(tb[4])
      day == bcdtodec(tb[5])
      month == bcdtodec(BitAnd(tb[6], 127))
      year == bcdtodec(tb[7]) + 2000
  IN <<year, month, day, weekday, hour, minutes, seconds, 0>>

\* the 7 bytes datetime(datetime) builds in self._timebuf
EncodeDatetime(datetime) ==
  <<IF Len(datetime) >= 6 THEN dectobcd(datetime[6]) ELSE 0,
    dectobcd(datetime[5]),
    dectobcd(datetime[4]),
    IF Len(datetime) >= 7 THEN dectobcd(datetime[7]) ELSE 0,
    dectobcd(datetime[3]),
    BitAnd(dectobcd(datetime[2]), 255),
    dectobcd(int(LastTwo(str(datetime[1]))))>>

DatetimeGet ==
  /\ pc = "idle"
  /\ LET timebuf == readfrom_mem(mem, DATETIME_REG, 7)
     IN ret' = DecodeDatetime(timebuf)
  /\ printed' = OSF(mem)
  /\ op' = "datetime_get"
  /\ arg' = <<>>
  /\ writes' = <<>>
  /\ UNCHANGED <<mem, pc, status, hw>>

DatetimeSet(datetime) ==
  /\ pc = "idle"
  /\ \E timebuf \in {EncodeDatetime(datetime)} :
       /\ \A i \in 1..7 : timebuf[i] \in Byte
       /\ \E d \in {OSF_reset(writeto_mem(Dev, DATETIME_REG, timebuf))} :
            /\ mem' = d.mem
            /\ writes' = d.writes
  /\ ret' = TRUE
  /\ printed' = FALSE
  /\ op' = "datetime_set"
  /\ arg' = datetime
  /\ UNCHANGED <<pc, status, hw>>

(* ------------------------------------------------------------------ *)
(* OSF() and _is_busy(): pure status reads                             *)
(* ------------------------------------------------------------------ *)
OSFRead ==
  /\ pc = "idle"
  /\ ret' = OSF(mem)
  /\ op' = "OSF"
  /\ arg' = <<>>
  /\ writes' = <<>>
  /\ printed' = FALSE
  /\ UNCHANGED <<mem, pc, status, hw>>

IsBusy ==
  /\ pc = "idle"
  /\ ret' = is_busy(mem)
  /\ op' = "_is_busy"
  /\ arg' = <<>>
  /\ writes' = <<>>
  /\ printed' = FALSE
  /\ UNCHANGED <<mem, pc, status, hw>>

(* ------------------------------------------------------------------ *)
(* square_wave()                                                       *)
(* ------------------------------------------------------------------ *)
\* a plausible slip: only INTCN is forced, the alarm enables are kept
SquareWaveDisabled_keep(ctrl) == BitOr(BitAnd(ctrl, 251), 4)

\* the control byte written by square_wave(False)
SquareWaveDisabled(ctrl) == BitOr(BitAnd(ctrl, 248), 4)

\* the control byte written by square_wave(freq), freq in 1..4
SquareWaveEnabled(ctrl, freq) == BitOr(BitAnd(ctrl, 227), Shl(freq - 1, 3))

SquareWaveGet ==
  /\ pc = "idle"
  /\ ret' = readfrom_mem(mem, CONTROL_REG, 1)[1]
  /\ op' = "square_wave_get"
  /\ arg' = <<>>
  /\ writes' = <<>>
  /\ printed' = FALSE
  /\ UNCHANGED <<mem, pc, status, hw>>

\* freq = 0 stands for False (Python: False == 0, and "not freq" holds of both)
SquareWaveSet(freq) ==
  /\ pc = "idle"
  /\ LET ctrl == readfrom_mem(mem, CONTROL_REG, 1)[1]
         new == IF freq = 0 THEN SquareWaveDisabled(ctrl)
                ELSE SquareWaveEnabled(ctrl, freq)
         d == writeto_mem(Dev, CONTROL_REG, <<new>>)
     IN /\ new \in Byte
        /\ mem' = d.mem
        /\ writes' = d.writes
  /\ ret' = TRUE
  /\ op' = "square_wave_set"
  /\ arg' = <<freq>>
  /\ printed' = FALSE
  /\ UNCHANGED <<pc, status, hw>>

(* ------------------------------------------------------------------ *)
(* alarm_int()                                                         *)
(* ------------------------------------------------------------------ *)
\* the control byte written for alarm 1
AlarmInt1New(ctrl, enable) ==
  IF enable THEN BitOr(BitAnd(ctrl, 250), 5) ELSE BitAnd(ctrl, 253)

\* the control byte written for alarm 2
AlarmInt2New(ctrl, enable) ==
  IF enable THEN BitOr(BitAnd(ctrl, 249), 6) ELSE BitAnd(ctrl, 251)

alarm_int(d, enable, alarm) ==
  LET d1 == IF alarm \in {0, 1}
            THEN LET ctrl == readfrom_mem(d.mem, CONTROL_REG, 1)[1]
                 IN writeto_mem(d, CONTROL_REG, <<AlarmInt1New(ctrl, enable)>>)
            ELSE d
      d2 == IF alarm \in {0, 2}
            THEN LET ctrl == readfrom_mem(d1.mem, CONTROL_REG, 1)[1]
                 IN writeto_mem(d1, CONTROL_REG, <<AlarmInt2New(ctrl, enable)>>)
            ELSE d1
  IN [d |-> d2, ret |-> readfrom_mem(d2.mem, CONTROL_REG, 1)]

AlarmInt(enable, alarm) ==
  /\ pc = "idle"
  /\ \E r \in {alarm_int(Dev, enable, alarm)} :
        /\ mem' = r.d.mem
        /\ writes' = r.d.writes
        /\ ret' = r.ret
  /\ op' = "alarm_int"
  /\ arg' = <<enable, alarm>>
  /\ printed' = FALSE
  /\ UNCHANGED <<pc, status, hw>>

(* ------------------------------------------------------------------ *)
(* check_alarm()                                                       *)
(* ------------------------------------------------------------------ *)
\* a plausible slip: both alarm flags are cleared at once
CheckAlarmCleared_both(st, alarm) == BitAndNot(st, 3)

\* the status byte check_alarm writes back
CheckAlarmCleared(st, alarm) == BitAndNot(st, alarm)

\* a plausible slip: the flag is reported but never cleared
check_alarm_noclear(d, alarm) ==
  LET st == readfrom_mem(d.mem, STATUS_REG, 1)[1]
  IN [d |-> d, ret |-> BitAnd(st, alarm) # 0]

check_alarm(d, alarm) ==
  LET st == readfrom_mem(d.mem, STATUS_REG, 1)[1]
  IN IF BitAnd(st, alarm) = 0
     THEN [d |-> d, ret |-> FALSE]
     ELSE [d |-> writeto_mem(d, STATUS_REG, <<CheckAlarmCleared(st, alarm)>>),
           ret |-> TRUE]

CheckAlarm(alarm) ==
  /\ pc = "idle"
  /\ \E r \in {check_alarm(Dev, alarm)} :
        /\ mem' = r.d.mem
        /\ writes' = r.d.writes
        /\ ret' = r.ret
  /\ op' = "check_alarm"
  /\ arg' = <<alarm>>
  /\ printed' = FALSE
  /\ UNCHANGED <<pc, status, hw>>

(* ------------------------------------------------------------------ *)
(* output_32kHz()                                                      *)
(* ------------------------------------------------------------------ *)
Output32kHzNew(current, enable) ==
  IF enable THEN BitOr(current, Shl(1, 3)) ELSE BitAndNot(current, Shl(1, 3))

Output32kHz(enable) ==
  /\ pc = "idle"
  /\ LET current == readfrom_mem(mem, STATUS_REG, 1)[1]
         d == writeto_mem(Dev, STATUS_REG, <<Output32kHzNew(current, enable)>>)
     IN /\ mem' = d.mem
        /\ writes' = d.writes
  /\ ret' = "None"
  /\ op' = "output_32kHz"
  /\ arg' = <<enable>>
  /\ printed' = FALSE
  /\ UNCHANGED <<pc, status, hw>>

(* ------------------------------------------------------------------ *)
(* alarm1() and alarm2()                                               *)
(* ------------------------------------------------------------------ *)
\* isinstance(time, int): a single integer is treated as (time,)
IntAsTuple(time) == <<time>>

\* a plausible slip: the A1Mx mask bits are taken in reverse order
Alarm1Mask_reversed(match, i) == Shl(BitAnd(match, Shl(1, 3 - i)), 4 + i)

\* the mask bit of alarm 1 for byte i (0..3): a1m1, a1m2, a1m3, a1m4
Alarm1Mask(match, i) == Shl(BitAnd(match, Shl(1, i)), 7 - i)

\* the mask bit of alarm 2 for byte i (0..2): a2m2, a2m3, a2m4
Alarm2Mask(match, i) == Shl(BitAnd(match, Shl(1, i)), 7 - i)

\* DY/DT bit: 1 = weekday, 0 = date
DyDt(weekday) == IF weekday THEN Shl(1, 6) ELSE 0

\* the 4 bytes alarm1(time, match, weekday) builds in self._al1_buf
Alarm1Bytes(time, match, weekday) ==
  <<BitOr(dectobcd(time[1]), Alarm1Mask(match, 0)),
    IF Len(time) > 1 THEN BitOr(dectobcd(time[2]), Alarm1Mask(match, 1))
                     ELSE Alarm1Mask(match, 1),
    IF Len(time) > 2 THEN BitOr(dectobcd(time[3]), Alarm1Mask(match, 2))
                     ELSE Alarm1Mask(match, 2),
    IF Len(time) > 3
    THEN BitOr(BitOr(dectobcd(time[4]), Alarm1Mask(match, 3)), DyDt(weekday))
    ELSE BitOr(Alarm1Mask(match, 3), DyDt(weekday))>>

\* the 3 bytes alarm2(time, match, weekday) builds in self._al2buf
Alarm2Bytes(time, match, weekday) ==
  <<IF Len(time) > 0 THEN BitOr(dectobcd(time[1]), Alarm2Mask(match, 0))
                     ELSE Alarm2Mask(match, 0),
    IF Len(time) > 1 THEN BitOr(dectobcd(time[2]), Alarm2Mask(match, 1))
                     ELSE Alarm2Mask(match, 1),
    IF Len(time) > 2
    THEN BitOr(BitOr(dectobcd(time[3]), Alarm2Mask(match, 2)), DyDt(weekday))
    ELSE BitOr(Alarm2Mask(match, 2), DyDt(weekday))>>

Alarm1Get ==
  /\ pc = "idle"
  /\ ret' = readfrom_mem(mem, ALARM1_REG, 4)
  /\ op' = "alarm1_get"
  /\ arg' = <<>>
  /\ writes' = <<>>
  /\ printed' = FALSE
  /\ UNCHANGED <<mem, pc, status, hw>>

Alarm1Set(time, match, int_en, weekday) ==
  /\ pc = "idle"
  /\ Len(time) >= 1
  /\ \E al1_buf \in {Alarm1Bytes(time, match, weekday)} :
       /\ \A i \in 1..4 : al1_buf[i] \in Byte
       /\ \E d1 \in {writeto_mem(Dev, ALARM1_REG, al1_buf)} :
          \E d2 \in {alarm_int(d1, int_en, 1).d} :
          \E d3 \in {check_alarm(d2, 1).d} :
            /\ mem' = d3.mem
            /\ writes' = d3.writes
            /\ ret' = al1_buf
  /\ op' = "alarm1_set"
  /\ arg' = <<time, match, int_en, weekday>>
  /\ printed' = FALSE
  /\ UNCHANGED <<pc, status, hw>>

Alarm2Get ==
  /\ pc = "idle"
  /\ ret' = readfrom_mem(mem, ALARM2_REG, 3)
  /\ op' = "alarm2_get"
  /\ arg' = <<>>
  /\ writes' = <<>>
  /\ printed' = FALSE
  /\ UNCHANGED <<mem, pc, status, hw>>

Alarm2Set(time, match, int_en, weekday) ==
  /\ pc = "idle"
  /\ \E al2buf \in {Alarm2Bytes(time, match, weekday)} :
       /\ \A i \in 1..3 : al2buf[i] \in Byte
       /\ \E d1 \in {writeto_mem(Dev, ALARM2_REG, al2buf)} :
          \E d2 \in {alarm_int(d1, int_en, 2).d} :
          \E d3 \in {check_alarm(d2, 2).d} :
            /\ mem' = d3.mem
            /\ writes' = d3.writes
            /\ ret' = al2buf
  /\ op' = "alarm2_set"
  /\ arg' = <<time, match, int_en, weekday>>
  /\ printed' = FALSE
  /\ UNCHANGED <<pc, status, hw>>

(* ------------------------------------------------------------------ *)
(* check_alarm() with the hardware acting between its two bus          *)
(* transactions: the read (lines 329-330) and the rest (331-335)       *)
(* ------------------------------------------------------------------ *)
CheckAlarmRead(alarm) ==
  /\ pc = "idle"
  /\ status' = readfrom_mem(mem, STATUS_REG, 1)[1]
  /\ pc' = "check_alarm_331"
  /\ op' = "check_alarm"
  /\ arg' = <<alarm>>
  /\ ret' = "None"
  /\ writes' = <<>>
  /\ printed' = FALSE
  /\ UNCHANGED <<mem, hw>>

CheckAlarmFinish ==
  /\ pc = "check_alarm_331"
  /\ LET alarm == arg[1]
     IN IF BitAnd(status, alarm) = 0
        THEN /\ ret' = FALSE
             /\ UNCHANGED <<mem, writes>>
        ELSE LET d == writeto_mem(Dev, STATUS_REG,
                                  <<CheckAlarmCleared(status, alarm)>>)
             IN /\ mem' = d.mem
                /\ writes' = d.writes
                /\ ret' = TRUE
  /\ pc' = "idle"
  /\ status' = 0
  /\ UNCHANGED <<op, arg, printed, hw>>

\* the device raises alarm k's pending flag (status bit k-1) when its alarm
\* registers match the running clock, whatever the driver is doing
HwAlarmMatch(k) ==
  /\ hw < MaxHwEvents
  /\ BitAnd(mem[STATUS_REG], k) = 0
  /\ mem' = [mem EXCEPT ![STATUS_REG] = BitOr(@, k)]
  /\ hw' = hw + 1
  /\ UNCHANGED <<op, arg, ret, writes, printed, pc, status>>

(* ------------------------------------------------------------------ *)
(* Inputs                                                              *)
(* ------------------------------------------------------------------ *)
\* date/time tuples (year, month, day, hour, minute, second, weekday): a sweep
\* through every value of every field, the documented scenario and the corners
DtSample(i) ==
  <<2000 + (i % 100), 1 + (i % 12), 1 + (i % 31), i % 24,
    (7 * i) % 60, (11 * i) % 60, 1 + (i % 7)>>

DtSet ==
  {DtSample(i) : i \in 0..(NumDt - 1)}
    \cup {<<2023, 6, 15, 10, 30, 45, 4>>, <<2000, 1, 1, 0, 0, 0, 1>>,
          <<2099, 12, 31, 23, 59, 59, 7>>}

\* tuples without weekday or without seconds and weekday, and a two-digit year
DtShort == {<<2024, 2, 29, 12, 5>>, <<2024, 2, 29, 12, 5, 59>>,
            <<23, 6, 15, 10, 30, 45, 4>>}

\* the hour register in 24-hour mode and in 12-hour mode
HourBytes24 == {dectobcd(h) : h \in 0..23}

HourBytes12 == {64 + 32 * pm + dectobcd(h) : h \in 1..12, pm \in 0..1}

\* whether sample i of alarm 1 compares the weekday instead of the date
A1Weekday(i) == i % 3 = 1

\* alarm 1 time tuples (second, minute, hour, day) of lengths 4, 3, 2, 1, 4, ...
A1Time(i) ==
  SubSeq(<<(30 + 7 * i) % 60, (15 + 11 * i) % 60, (10 + 5 * i) % 24,
           IF A1Weekday(i) THEN 1 + (i % 7) ELSE 31 - ((4 * i) % 31)>>,
         1, 4 - (i % 4))

\* whether sample i of alarm 2 compares the weekday instead of the date
A2Weekday(i) == i % 2 = 1

\* alarm 2 time tuples (minute, hour, day) of lengths 3, 2, 1, 3, ...
A2Time(i) ==
  SubSeq(<<(15 + 11 * i) % 60, (10 + 5 * i) % 24,
           IF A2Weekday(i) THEN 1 + (i % 7) ELSE 31 - ((4 * i) % 31)>>,
         1, 3 - (i % 3))

AlarmIdx == 0..(NumAlarmTimes - 1)

FreqArgs == {0, FREQ_1, FREQ_1024, FREQ_4096, FREQ_8192}

(* ------------------------------------------------------------------ *)
(* Initial states: the registers as some earlier use left them, the    *)
(* driver as __init__ leaves it                                        *)
(* ------------------------------------------------------------------ *)
InitRegs(time7, ctl, st) ==
  [r \in Regs |->
     IF r < ALARM1_REG THEN time7[r + 1]
     ELSE IF r = CONTROL_REG THEN ctl
     ELSE IF r = STATUS_REG THEN st
     ELSE 0]

InitDriver ==
  /\ op = ""
  /\ arg = <<>>
  /\ ret = "None"
  /\ writes = <<>>
  /\ printed = FALSE
  /\ pc = "idle"
  /\ status = 0
  /\ hw = 0

\* 1 January 2000, 00:00:00, weekday 1
Time0 == <<0, 0, 0, 1, 1, 1, 0>>

(* ------------------------------------------------------------------ *)
(* Spec: the whole driver, every method, called in any order           *)
(* ------------------------------------------------------------------ *)
Init ==
  /\ InitDriver
  /\ \E st \in {0, 131} : mem = InitRegs(Time0, 28, st)

Next ==
  \/ DatetimeGet
  \/ \E dt \in {<<2023, 6, 15, 10, 30, 45, 4>>} : DatetimeSet(dt)
  \/ OSFRead
  \/ IsBusy
  \/ SquareWaveGet
  \/ \E freq \in {0, FREQ_1024} : SquareWaveSet(freq)
  \/ \E enable \in BOOLEAN, alarm \in {0, 1, 2} : AlarmInt(enable, alarm)
  \/ \E alarm \in {1, 2} : CheckAlarm(alarm)
  \/ \E enable \in BOOLEAN : Output32kHz(enable)
  \/ Alarm1Get
  \/ \E int_en \in BOOLEAN : Alarm1Set(<<30>>, AL1_MATCH_S, int_en, FALSE)
  \/ Alarm2Get
  \/ \E int_en \in BOOLEAN : Alarm2Set(<<15, 10>>, AL2_MATCH_HM, int_en, FALSE)

Spec == Init /\ [][Next]_vars

(* ------------------------------------------------------------------ *)
(* SpecTime: reading and setting the time, from every hour register    *)
(* ------------------------------------------------------------------ *)
InitTime ==
  /\ InitDriver
  /\ \E hr \in HourBytes24 \cup HourBytes12, mon \in {1, 129}, st \in {0, 136, 139} :
       mem = InitRegs([Time0 EXCEPT ![3] = hr, ![6] = mon], 28, st)

NextTime ==
  \/ DatetimeGet
  \/ \E dt \in DtSet \cup DtShort : DatetimeSet(dt)
  \/ OSFRead

SpecTime == InitTime /\ [][NextTime]_vars

(* ------------------------------------------------------------------ *)
(* SpecCtl: the control register, from every value it can hold         *)
(* ------------------------------------------------------------------ *)
InitCtl ==
  /\ InitDriver
  /\ \E ctl \in Byte : mem = InitRegs(Time0, ctl, 0)

NextCtl ==
  \/ SquareWaveGet
  \/ \E freq \in FreqArgs : SquareWaveSet(freq)
  \/ \E enable \in BOOLEAN, alarm \in {0, 1, 2} : AlarmInt(enable, alarm)

SpecCtl == InitCtl /\ [][NextCtl]_vars

(* ------------------------------------------------------------------ *)
(* SpecStatus: the status register, from every value it can hold       *)
(* ------------------------------------------------------------------ *)
InitStatus ==
  /\ InitDriver
  /\ \E st \in Byte : mem = InitRegs(Time0, 28, st)

NextStatus ==
  \/ \E alarm \in {1, 2} : CheckAlarm(alarm)
  \/ \E enable \in BOOLEAN : Output32kHz(enable)
  \/ OSFRead
  \/ IsBusy

SpecStatus == InitStatus /\ [][NextStatus]_vars

(* ------------------------------------------------------------------ *)
(* SpecAlarm: setting and reading the two alarms                       *)
(* ------------------------------------------------------------------ *)
InitAlarm ==
  /\ InitDriver
  /\ \E st \in {0, 3} : mem = InitRegs(Time0, 28, st)

\* whether the registers of alarm 1 (resp. 2) are as the initial state or the
\* single-second (resp. hour and minute) call below left them
Alarm1AtRest == readfrom_mem(mem, ALARM1_REG, 4) \in {<<0, 0, 0, 0>>, <<48, 128, 128, 128>>}

Alarm2AtRest == readfrom_mem(mem, ALARM2_REG, 3) \in {<<0, 0, 0>>, <<21, 16, 128>>}

\* every match mode with every tuple length is swept for one alarm while the
\* other alarm is at rest
NextAlarm ==
  \/ Alarm1Get
  \/ \E i \in AlarmIdx, match \in 0..15 :
       Alarm2AtRest /\ Alarm1Set(A1Time(i), match, TRUE, A1Weekday(i))
  \/ \E int_en \in BOOLEAN : Alarm1Set(IntAsTuple(30), AL1_MATCH_S, int_en, FALSE)
  \/ Alarm2Get
  \/ \E i \in AlarmIdx, match \in 0..7 :
       Alarm1AtRest /\ Alarm2Set(A2Time(i), match, TRUE, A2Weekday(i))
  \/ \E int_en \in BOOLEAN : Alarm2Set(<<15, 10>>, AL2_MATCH_HM, int_en, FALSE)

SpecAlarm == InitAlarm /\ [][NextAlarm]_vars

(* ------------------------------------------------------------------ *)
(* SpecHw: check_alarm while the hardware raises alarm flags           *)
(* ------------------------------------------------------------------ *)
InitHw ==
  /\ InitDriver
  /\ \E st \in {0, 1, 2, 3, 128, 129, 130, 136, 137, 138} :
       mem = InitRegs(Time0, 28, st)

NextHw ==
  \/ \E alarm \in {1, 2} : CheckAlarmRead(alarm)
  \/ CheckAlarmFinish
  \/ \E k \in {1, 2} : HwAlarmMatch(k)

SpecHw == InitHw /\ [][NextHw]_vars

(* ------------------------------------------------------------------ *)
(* Properties                                                          *)
(* ------------------------------------------------------------------ *)
\* bit b of byte x
Bit(x, b) == (x \div (2 ^ b)) % 2

\* the two decimal digits of n (0..99) packed one per nibble
Bcd(n) == 16 * (n \div 10) + (n % 10)

\* a 7-tuple (year, month, day, hour, minute, second, weekday) within the
\* documented ranges
DtInRange(dt) ==
  /\ Len(dt) = 7
  /\ dt[1] \in 2000..2099 /\ dt[2] \in 1..12 /\ dt[3] \in 1..31
  /\ dt[4] \in 0..23 /\ dt[5] \in 0..59 /\ dt[6] \in 0..59 /\ dt[7] \in 1..7

\* C1: datetime(dt) followed by datetime() returns (year, month, day, weekday,
\* hour, minute, second, 0) with the field values of dt, for every dt within
\* the documented ranges.
C1_TimeRoundTrip ==
  [][(op = "datetime_set" /\ DtInRange(arg) /\ op' = "datetime_get")
       => ret' = <<arg[1], arg[2], arg[3], arg[7], arg[4], arg[5], arg[6], 0>>]_vars

\* the documented scenario has been set and read back
C1_Witness ==
  /\ op = "datetime_get"
  /\ ret = <<2023, 6, 15, 4, 10, 30, 45, 0>>
  /\ readfrom_mem(mem, DATETIME_REG, 7) = <<69, 48, 16, 4, 21, 6, 35>>

\* the 24-hour equivalent of a valid hour register
Hour24(hr_reg) ==
  IF Bit(hr_reg, 6) = 1
  THEN ((10 * Bit(hr_reg, 4) + (hr_reg % 16)) % 12) + 12 * Bit(hr_reg, 5)
  ELSE 10 * ((hr_reg % 64) \div 16) + (hr_reg % 16)

\* C2: for every valid hour register (24-hour mode with BCD 00..23, 12-hour
\* mode with BCD 01..12 and the PM flag) the hour datetime() returns is in
\* 0..23 and is the 24-hour equivalent of the stored value (12 AM is 0, 12 PM
\* is 12).
C2_HourNormalized ==
  (op = "datetime_get" /\ mem[2] \in HourBytes24 \cup HourBytes12)
    => (ret[5] \in 0..23 /\ ret[5] = Hour24(mem[2]))

\* C3 as stated: square_wave(False) followed by square_wave() returns a byte
\* with bit 2 set, bits 3-4 cleared and every other bit as it was before.
C3_DisableAsStated ==
  [][/\ (op' = "square_wave_set" /\ arg'[1] = 0)
          => /\ Bit(mem'[CONTROL_REG], 2) = 1
             /\ Bit(mem'[CONTROL_REG], 3) = 0 /\ Bit(mem'[CONTROL_REG], 4) = 0
             /\ \A b \in {0, 1, 5, 6, 7} :
                  Bit(mem'[CONTROL_REG], b) = Bit(mem[CONTROL_REG], b)
     /\ (op = "square_wave_set" /\ op' = "square_wave_get")
          => ret' = mem[CONTROL_REG]]_vars

\* C3 amended: square_wave(False) followed by square_wave() returns a byte
\* with bit 2 set, the alarm-enable bits 0 and 1 cleared, and bits 3-7 (the
\* frequency-select bits included) as they were before.
C3_DisableAmended ==
  [][/\ (op' = "square_wave_set" /\ arg'[1] = 0)
          => /\ Bit(mem'[CONTROL_REG], 2) = 1
             /\ Bit(mem'[CONTROL_REG], 0) = 0 /\ Bit(mem'[CONTROL_REG], 1) = 0
             /\ \A b \in 3..7 :
                  Bit(mem'[CONTROL_REG], b) = Bit(mem[CONTROL_REG], b)
             /\ \A r \in Regs \ {CONTROL_REG} : mem'[r] = mem[r]
     /\ (op = "square_wave_set" /\ op' = "square_wave_get")
          => ret' = mem[CONTROL_REG]]_vars

\* the square wave was disabled on a control register with bits 3-7 set: they
\* are all written back, with bit 2 set and bits 0 and 1 cleared
C3_Witness ==
  /\ op = "square_wave_set" /\ arg = <<0>>
  /\ writes = <<[reg |-> CONTROL_REG, data |-> <<252>>]>>
  /\ mem[CONTROL_REG] = 252

\* C4: alarm_int(True, k) leaves alarm k's enable bit (bit k-1) at 1;
\* alarm_int(False, k) leaves that bit at 0 and does not change the other
\* alarm's enable bit.
C4_AlarmIntBit ==
  [][(op' = "alarm_int" /\ arg'[2] \in {1, 2})
       => IF arg'[1]
          THEN Bit(mem'[CONTROL_REG], arg'[2] - 1) = 1
          ELSE /\ Bit(mem'[CONTROL_REG], arg'[2] - 1) = 0
               /\ Bit(mem'[CONTROL_REG], 2 - arg'[2])
                    = Bit(mem[CONTROL_REG], 2 - arg'[2])]_vars

\* C5: after alarm_int(True, alarm) for alarm 1, 2 or both, the
\* interrupt-control bit (bit 2) of the control register is 0.
C5_EnableClearsIntcn ==
  (op = "alarm_int" /\ arg[1]) => Bit(mem[CONTROL_REG], 2) = 0

\* C6: check_alarm(k) returns True exactly when status bit k-1 was set; then
\* it writes the status back once with only that bit cleared, and a second
\* check_alarm(k) right after returns False; when the bit was not set it
\* returns False and writes nothing.
C6_CheckAlarm ==
  [][op' = "check_alarm"
       => /\ ret' = (Bit(mem[STATUS_REG], arg'[1] - 1) = 1)
          /\ ret' => /\ Len(writes') = 1
                     /\ writes'[1].reg = STATUS_REG
                     /\ writes'[1].data = <<mem'[STATUS_REG]>>
                     /\ \A b \in 0..7 :
                          Bit(mem'[STATUS_REG], b)
                            = IF b = arg'[1] - 1 THEN 0 ELSE Bit(mem[STATUS_REG], b)
          /\ ~ret' => (writes' = <<>> /\ mem' = mem)
          /\ \A r \in Regs \ {STATUS_REG} : mem'[r] = mem[r]
          /\ (op = "check_alarm" /\ arg = arg') => ret' = FALSE]_vars

\* alarm 1 was pending together with alarm 2, OSF and the 32 kHz enable, and
\* check_alarm(1) cleared bit 0 alone
C6_Witness ==
  /\ op = "check_alarm" /\ arg = <<1>> /\ ret = TRUE
  /\ writes = <<[reg |-> STATUS_REG, data |-> <<138>>]>>
  /\ mem[STATUS_REG] = 138

\* the alarm bytes as C7 states them: bit 7 of byte i is bit i of match, the
\* data bits are the BCD of field i (0 when absent), bit 6 of the last byte
\* is the weekday flag
AlarmBytesAsStated(data, n, time, match, weekday) ==
  /\ Len(data) = n
  /\ \A i \in 0..(n - 1) :
       /\ Bit(data[i + 1], 7) = Bit(match, i)
       /\ IF i = n - 1
          THEN /\ data[i + 1] % 64 = (IF Len(time) > i THEN Bcd(time[i + 1]) ELSE 0)
               /\ Bit(data[i + 1], 6) = (IF weekday THEN 1 ELSE 0)
          ELSE data[i + 1] % 128 = (IF Len(time) > i THEN Bcd(time[i + 1]) ELSE 0)

\* C7: alarm1(time, match, weekday) writes 4 bytes at register 7 (alarm2: 3
\* bytes at register 11) built as AlarmBytesAsStated; match 0 leaves every
\* mask bit 0, match 15 (7 for alarm 2) sets every mask bit, and
\* alarm1((30,), AL1_MATCH_S) writes second 30 with mask bits 0, 1, 1, 1.
C7_AlarmBytes ==
  /\ op = "alarm1_set"
       => /\ writes[1].reg = ALARM1_REG
          /\ AlarmBytesAsStated(writes[1].data, 4, arg[1], arg[2], arg[4])
          /\ readfrom_mem(mem, ALARM1_REG, 4) = writes[1].data
          /\ arg[2] = AL1_MATCH_DHMS => \A i \in 1..4 : writes[1].data[i] < 128
          /\ arg[2] = AL1_EVERY_S => \A i \in 1..4 : writes[1].data[i] >= 128
          /\ (arg[1] = <<30>> /\ arg[2] = AL1_MATCH_S /\ ~arg[4])
               => writes[1].data = <<48, 128, 128, 128>>
  /\ op = "alarm2_set"
       => /\ writes[1].reg = ALARM2_REG
          /\ AlarmBytesAsStated(writes[1].data, 3, arg[1], arg[2], arg[4])
          /\ readfrom_mem(mem, ALARM2_REG, 3) = writes[1].data
          /\ arg[2] = AL2_MATCH_DHM => \A i \in 1..3 : writes[1].data[i] < 128
          /\ arg[2] = AL2_EVERY_M => \A i \in 1..3 : writes[1].data[i] >= 128

\* alarm 1 was set with all four fields, hour and day as don't-care, by weekday
C7_Witness ==
  /\ op = "alarm1_set"
  /\ Len(arg[1]) = 4 /\ arg[2] = 12 /\ arg[4]
  /\ Bit(writes[1].data[1], 7) = 0 /\ Bit(writes[1].data[2], 7) = 0
  /\ Bit(writes[1].data[3], 7) = 1 /\ Bit(writes[1].data[4], 7) = 1
  /\ Bit(writes[1].data[4], 6) = 1

\* C8: a call other than a datetime set leaves a set OSF (status bit 7) set;
\* datetime(dt) issues the 7-byte write at register 0, then the status write,
\* and leaves OSF at 0 and every other status bit as it was.
C8_OsfLifecycle ==
  [][/\ (op' # "datetime_set" /\ Bit(mem[STATUS_REG], 7) = 1)
          => Bit(mem'[STATUS_REG], 7) = 1
     /\ op' = "datetime_set"
          => /\ Bit(mem'[STATUS_REG], 7) = 0
             /\ \A b \in 0..6 : Bit(mem'[STATUS_REG], b) = Bit(mem[STATUS_REG], b)
             /\ Len(writes') = 2
             /\ writes'[1].reg = DATETIME_REG /\ Len(writes'[1].data) = 7
             /\ writes'[2].reg = STATUS_REG
             /\ writes'[2].data = <<mem'[STATUS_REG]>>]_vars

\* the time was set while OSF and both alarm flags were set
C8_Witness ==
  /\ op = "datetime_set"
  /\ writes[2] = [reg |-> STATUS_REG, data |-> <<3>>]
  /\ mem[STATUS_REG] = 3

\* what C9 states of a set of alarm k, whose n bytes start at register reg
AlarmSetOrder(k, reg, n) ==
  /\ Len(writes') \in {2, 3}
  /\ writes'[1].reg = reg /\ Len(writes'[1].data) = n
  /\ writes'[2].reg = CONTROL_REG /\ Len(writes'[2].data) = 1
  /\ (Len(writes') = 3) <=> (Bit(mem[STATUS_REG], k - 1) = 1)
  /\ Len(writes') = 3
       => (writes'[3].reg = STATUS_REG /\ writes'[3].data = <<mem'[STATUS_REG]>>)
  /\ Bit(mem'[STATUS_REG], k - 1) = 0
  /\ Bit(mem'[STATUS_REG], 2 - k) = Bit(mem[STATUS_REG], 2 - k)

\* C9: alarm1(time, ...) (alarm2) issues one block write of its 4 (3) bytes at
\* register 7 (11), then the control write of alarm_int, then the status
\* write that clears its pending flag (issued when the flag was pending);
\* on return its pending flag is 0 and the other alarm's flag is unchanged.
C9_AlarmSetOrder ==
  [][/\ op' = "alarm1_set" => AlarmSetOrder(1, ALARM1_REG, 4)
     /\ op' = "alarm2_set" => AlarmSetOrder(2, ALARM2_REG, 3)]_vars

\* alarm 1 was set while both alarm flags were pending: three writes, flag 1
\* cleared, flag 2 still pending
C9_Witness ==
  /\ op = "alarm1_set"
  /\ Len(writes) = 3
  /\ writes[3].reg = STATUS_REG
  /\ Bit(mem[STATUS_REG], 0) = 0 /\ Bit(mem[STATUS_REG], 1) = 1

\* C10: when the hardware has set the other alarm's pending bit by the time
\* check_alarm(k) writes the status back, that bit is still set after the
\* write-back.
C10_OtherFlagKept ==
  [][(pc = "check_alarm_331" /\ pc' = "idle"
        /\ BitAnd(mem[STATUS_REG], 3 - arg[1]) # 0)
       => BitAnd(mem'[STATUS_REG], 3 - arg[1]) # 0]_vars

====
